---------------------------- MODULE Spec2Model ----------------------------
(***************************************************************************)
(* A model of the us-stock-monitor collector (src/database.py) and of the  *)
(* dashboard's read path (src/app.py).                                     *)
(*                                                                         *)
(* Numbers are exact: a pandas float is a record [k, n, d] that is either  *)
(* a reduced fraction n/d (k = "real"), NaN, +inf or -inf; binary rounding *)
(* is not modelled.  A session date is a day number; the ISO text the      *)
(* collector stores is modelled by DateText, whose order is the day order. *)
(***************************************************************************)
EXTENDS Integers, Sequences, FiniteSets, Bags, TLC

(***************************************************************************)
(* Bounds of the model.                                                    *)
(***************************************************************************)
\* longest raw series the provider returns in the derivation specification
MaxLen == 5
\* number of provider history calls in one behaviour of the batch specification
MaxCalls == 4

(***************************************************************************)
(* Program constants.                                                      *)
(***************************************************************************)
\* df['Volume'].rolling(window=5)
Window == 5
\* the factor of "* 100" in pct_change and amplitude
Percent == 100
\* info.get('trailingPE', 0)
DefaultPE == 0

(***************************************************************************)
(* Floating point values (exact) and the values SQLite stores.             *)
(***************************************************************************)
Abs(x) == IF x < 0 THEN -x ELSE x

RECURSIVE Gcd(_, _)
Gcd(a, b) == IF b = 0 THEN a ELSE Gcd(b, a % b)

NaN == [k |-> "nan", n |-> 0, d |-> 0]
PosInf == [k |-> "inf", n |-> 1, d |-> 0]
NegInf == [k |-> "ninf", n |-> -1, d |-> 0]
Null == [k |-> "null", n |-> 0, d |-> 0]

\* the float n/d for d > 0, reduced
Frac(n, d) ==
    LET g == Gcd(Abs(n), d)
    IN  [k |-> "real", n |-> n \div g, d |-> d \div g]

Real(n) == Frac(n, 1)

IsNaN(x) == x.k = "nan"
IsFinite(x) == x.k = "real"
Sign(x) == IF x.n > 0 THEN 1 ELSE IF x.n < 0 THEN -1 ELSE 0
Signed(s) == IF s > 0 THEN PosInf ELSE IF s < 0 THEN NegInf ELSE NaN

\* IEEE division, as numpy performs it on float64 columns
FDiv(x, y) ==
    IF IsNaN(x) \/ IsNaN(y) THEN NaN
    ELSE IF IsFinite(x) /\ IsFinite(y)
         THEN IF y.n = 0 THEN Signed(Sign(x))
              ELSE Frac(Sign(y) * x.n * y.d, x.d * Abs(y.n))
    ELSE IF IsFinite(y) THEN Signed(Sign(x) * (IF y.n < 0 THEN -1 ELSE 1))
    ELSE IF IsFinite(x) THEN Real(0)
    ELSE NaN

FSub(x, y) ==
    IF IsNaN(x) \/ IsNaN(y) THEN NaN
    ELSE IF IsFinite(x) /\ IsFinite(y)
         THEN Frac(x.n * y.d - y.n * x.d, x.d * y.d)
    ELSE IF IsFinite(y) THEN x
    ELSE IF IsFinite(x) THEN Signed(-Sign(y))
    ELSE IF x = y THEN NaN ELSE x

FMul(x, y) ==
    IF IsNaN(x) \/ IsNaN(y) THEN NaN
    ELSE IF IsFinite(x) /\ IsFinite(y) THEN Frac(x.n * y.n, x.d * y.d)
    ELSE Signed(Sign(x) * Sign(y))

\* sqlite3 binds a NaN float as NULL and any other float as itself
ToSql(x) == IF IsNaN(x) THEN Null ELSE x

\* Timestamp.strftime('%Y-%m-%d'): the session's day, without time or zone
DateText(ts) == ts.day


(***************************************************************************)
(* The provider (yfinance) and the inputs of the model.                    *)
(***************************************************************************)
\* one row of the frame ticker.history returns
Session(day, c, h, l, v) ==
    [Date |-> [day |-> day], Close |-> c, High |-> h, Low |-> l, Volume |-> v]

\* ticker.info: a bag that may or may not hold 'trailingPE'
NoPE == [has |-> FALSE, trailingPE |-> 0]
Infos == {NoPE, [has |-> TRUE, trailingPE |-> 15]}

\* the (close, high, low, volume) values of the derivation specification:
\* zero and non-zero closes, zero and non-zero volumes, flat and wide ranges
RichBars ==
    { <<0, 0, 0, 0>>, <<0, 1, 0, 1>>, <<1, 1, 1, 0>>, <<1, 2, 1, 1>>, <<2, 2, 1, 2>> }

\* the series of consecutive sessions from day 1 with the values vals
SeriesOf(vals) ==
    [i \in 1..Len(vals) |->
        Session(i, vals[i][1], vals[i][2], vals[i][3], vals[i][4])]

\* the values of every series of 1..MaxLen sessions over RichBars
RichVals == UNION { [1..n -> RichBars] : n \in 1..MaxLen }

\* the non-empty series of the batch specification: a single session, a
\* three-session series and a later, revised fetch that overlaps it
BatchPool ==
    { << Session(4, 7, 7, 7, 1) >>,
      << Session(1, 4, 5, 3, 2), Session(2, 5, 6, 4, 3), Session(3, 4, 5, 4, 1) >>,
      << Session(2, 6, 6, 5, 3), Session(3, 3, 5, 3, 2), Session(4, 0, 3, 0, 0) >> }

\* the symbol lists a run is called with
BatchLists == { <<"A">>, <<"B">>, <<"A", "A">>, <<"A", "B">>, <<"A", "B", "C">> }
DeriveLists == { <<"A">> }

(***************************************************************************)
(* Metric derivation: database.py lines 58-63.                             *)
(***************************************************************************)
\* df['Close'].shift(1) at position i (1-based): NaN at the first position
ShiftClose(raw, i) == IF i = 1 THEN NaN ELSE Real(raw[i - 1].Close)

\* df['Close'].pct_change() * 100
PctChange(raw, i) ==
    FMul(FSub(FDiv(Real(raw[i].Close), ShiftClose(raw, i)), Real(1)), Real(Percent))

\* (df['High'] - df['Low']) / df['Close'].shift(1) * 100
Amplitude(raw, i) ==
    FMul(FDiv(FSub(Real(raw[i].High), Real(raw[i].Low)), ShiftClose(raw, i)),
         Real(Percent))

\* df['Close'] * df['Volume']
Amount(raw, i) == FMul(Real(raw[i].Close), Real(raw[i].Volume))

RECURSIVE SumVolume(_, _, _)
SumVolume(raw, lo, hi) ==
    IF lo > hi THEN 0 ELSE raw[hi].Volume + SumVolume(raw, lo, hi - 1)

\* a rolling mean over a shrinking window (min_periods=1)
RollingShrinking(raw, i) ==
    IF i < Window THEN Frac(SumVolume(raw, 1, i), i)
    ELSE Frac(SumVolume(raw, i - Window + 1, i), Window)

\* df['Volume'].rolling(window=5).mean(): NaN until Window sessions exist
RollingMean(raw, i) ==
    IF i < Window THEN NaN ELSE Frac(SumVolume(raw, i - Window + 1, i), Window)

\* df['Volume'] / df['Volume'].rolling(window=5).mean()
VolRatio(raw, i) == FDiv(Real(raw[i].Volume), RollingMean(raw, i))

\* the frame after lines 58-71
Derive(raw) ==
    [i \in 1..Len(raw) |->
        [Date |-> DateText(raw[i].Date),
         Close |-> Real(raw[i].Close),
         Volume |-> Real(raw[i].Volume),
         pct_change |-> PctChange(raw, i),
         amplitude |-> Amplitude(raw, i),
         amount |-> Amount(raw, i),
         vol_ratio |-> VolRatio(raw, i)]]

\* pe = info.get('trailingPE', 0)
TrailingPE(info) == IF info.has THEN info.trailingPE ELSE DefaultPE

(***************************************************************************)
(* The table daily_quotes: a bag of rows.                                  *)
(***************************************************************************)
EmptyTable == EmptyBag

\* the row the INSERT of lines 75-80 binds; turnover is not named and is NULL
QuoteRow(symbol, row, p) ==
    [symbol |-> symbol,
     date |-> row.Date,
     close |-> ToSql(row.Close),
     pct_change |-> ToSql(row.pct_change),
     volume |-> ToSql(row.Volume),
     amount |-> ToSql(row.amount),
     turnover |-> Null,
     amplitude |-> ToSql(row.amplitude),
     vol_ratio |-> ToSql(row.vol_ratio),
     pe_ratio |-> ToSql(Real(p))]

SameKey(r, q) == r.symbol = q.symbol /\ r.date = q.date

\* the rows of table t with the key (symbol, date)
RowsAt(t, symbol, date) ==
    {r \in BagToSet(t) : r.symbol = symbol /\ r.date = date}

\* how many rows table t holds under the key (symbol, date)
CountAt(t, symbol, date) ==
    BagCardinality([r \in RowsAt(t, symbol, date) |-> t[r]])

Without(t, q) == [r \in {x \in BagToSet(t) : ~SameKey(x, q)} |-> t[r]]

\* a plain INSERT into a table that has no key
InsertPlain(t, q) == t (+) SetToBag({q})

\* INSERT OR IGNORE: the row already stored wins
InsertOrIgnore(t, q) ==
    IF \E r \in BagToSet(t) : SameKey(r, q) THEN t ELSE t (+) SetToBag({q})

\* INSERT OR REPLACE under PRIMARY KEY (symbol, date)
InsertOrReplace(t, q) == Without(t, q) (+) SetToBag({q})

\* a row loop that skips every row with an undefined metric (a dropna)
SkipAnyNaN(row) == IsNaN(row.pct_change) \/ IsNaN(row.amplitude) \/ IsNaN(row.vol_ratio)

\* a row loop that skips nothing
KeepAll(row) == FALSE

\* if pd.isna(row['pct_change']): continue
SkipRow(row) == IsNaN(row.pct_change)

\* a connection in autocommit mode: an execute is durable at once
Autocommit(durable, view) == view

\* sqlite3's implicit transaction: an execute changes the connection's view
\* only, the durable table stays as it is
AfterExecute(durable, view) == durable

\* self.conn.commit(): the connection's view becomes the durable table
AfterCommit(durable, view) == view

(***************************************************************************)
(* The dashboard's read path: app.py, load_data and the main view.         *)
(***************************************************************************)
EmptyFrame == << >>

\* what one run of the script shows: the body of the page and whether
\* load_data's st.error (the read-failure message) is on it
Blank == [body |-> "none", readError |-> FALSE]

\* the last call of load_data: "ok" (the query ran), "failed" (the store could
\* not be read), "cached" (answered by st.cache_data), and its arguments
NoLoad == [how |-> "none", symbols |-> << >>, days |-> 0]

\* the inputs of the sidebar
Selections == { << >>, <<"A", "B">> }
DayOptions == {1, 2}

RECURSIVE MaxOf(_)
MaxOf(S) ==
    IF S = {} THEN 0
    ELSE LET x == CHOOSE y \in S : TRUE
             m == MaxOf(S \ {x})
         IN  IF x > m THEN x ELSE m

\* date('now'): the day of the latest session the provider knows
Today == MaxOf(UNION { {DateText(s[i].Date) : i \in 1..Len(s)} : s \in BatchPool })

\* date('now', '-{days} day')
WindowStart(days) == Today - days

SymbolsOf(list) == {list[i] : i \in 1..Len(list)}

\* WHERE symbol IN (...) AND date >= date('now', '-{days} day')
Selected(t, list, days) ==
    {r \in BagToSet(t) : r.symbol \in SymbolsOf(list) /\ r.date >= WindowStart(days)}

\* ORDER BY date ASC: any order of the selected rows in which dates do not
\* decrease; SQL leaves the order of rows of equal date open
OrderedByDate(rows) ==
    {f \in [1..Cardinality(rows) -> rows] :
        /\ \A i, j \in DOMAIN f : i < j => f[i] # f[j]
        /\ \A i, j \in DOMAIN f : i < j => f[i].date <= f[j].date}

\* the body of load_data, lines 40-55: the frames it may return and whether
\* it reported a read failure; the store fails when the table is absent or
\* when the read fails (ioOk = FALSE)
LoadData(t, tableThere, list, days, ioOk) ==
    IF list = << >> THEN {[frame |-> EmptyFrame, readError |-> FALSE, how |-> "ok"]}
    ELSE IF tableThere /\ ioOk
         THEN {[frame |-> f, readError |-> FALSE, how |-> "ok"] :
                  f \in OrderedByDate(Selected(t, list, days))}
    ELSE {[frame |-> EmptyFrame, readError |-> TRUE, how |-> "failed"]}

\* @st.cache_data: the entry cached for the arguments, if any
Cached(c, list, days) == {e \in c : e.symbols = list /\ e.days = days}

(***************************************************************************)
(* State.                                                                  *)
(*   committed  daily_quotes as stored in stocks.db                        *)
(*   hasTable   whether stocks.db holds the table daily_quotes             *)
(*   conn       daily_quotes as the collector's connection sees it         *)
(*   pc         "idle" (no collector process), "loop" (head of the symbol  *)
(*              loop), "rows" (inside the row loop of one symbol)          *)
(*   exit       how the last run ended: "none", "ok" (returned), "raised"  *)
(*              (an exception left fetch_data), "killed" (process aborted) *)
(*   symbols, idx   the list fetch_data was called with, the loop position *)
(*   raw, df, ri, pe   the fetched series, the derived frame, the row loop *)
(*              position and the P/E snapshot of the current symbol        *)
(*   calls      provider history calls made so far                         *)
(*   cache      the entries of st.cache_data for load_data                 *)
(*   ret        the frame load_data returned to the script's last run      *)
(*   shown      what the script's last run put on the page                 *)
(* History variables:                                                      *)
(*   pre        conn at the last point between two symbols                 *)
(*   tape       the provider's answers of the run, one per symbol          *)
(*   replay     whether the provider repeats the answers of tape           *)
(*   runStart   committed when the run began                               *)
(*   lastLoad   what the last call of load_data did, and its arguments     *)
(***************************************************************************)
VARIABLES committed, hasTable, conn, pc, exit, symbols, idx, raw, df, ri, pe,
          calls, pre, tape, replay, runStart, cache, ret, lastLoad, shown

dash == <<cache, ret, lastLoad, shown>>
vars == <<committed, hasTable, conn, pc, exit, symbols, idx, raw, df, ri, pe,
          calls, pre, tape, replay, runStart, cache, ret, lastLoad, shown>>

NoLocals == raw = << >> /\ df = << >> /\ ri = 0 /\ pe = 0
ResetLocals == raw' = << >> /\ df' = << >> /\ ri' = 0 /\ pe' = 0

Init ==
    /\ committed = EmptyTable
    /\ hasTable = FALSE
    /\ conn = EmptyTable
    /\ pc = "idle"
    /\ exit = "none"
    /\ symbols = << >>
    /\ idx = 0
    /\ NoLocals
    /\ calls = 0
    /\ pre = EmptyTable
    /\ tape = << >>
    /\ replay = FALSE
    /\ runStart = EmptyTable
    /\ cache = {}
    /\ ret = EmptyFrame
    /\ lastLoad = NoLoad
    /\ shown = Blank

(***************************************************************************)
(* The collector: __main__, StockDB.__init__ and StockDB.fetch_data.       *)
(***************************************************************************)
\* db = StockDB(); db.fetch_data(list): connect, create the table if absent,
\* enter the symbol loop
Call(lists) ==
    /\ pc = "idle"
    /\ \E l \in lists :
        /\ calls + Len(l) <= MaxCalls
        /\ symbols' = l
    /\ hasTable' = TRUE
    /\ conn' = committed
    /\ pc' = "loop"
    /\ exit' = "none"
    /\ idx' = 1
    /\ pre' = committed
    /\ tape' = << >>
    /\ replay' = FALSE
    /\ runStart' = committed
    /\ UNCHANGED <<committed, raw, df, ri, pe, calls>>
    /\ UNCHANGED dash

\* the same run once more, the provider answering as it did the first time
Rerun ==
    /\ pc = "idle"
    /\ exit = "ok"
    /\ ~replay
    /\ calls + Len(symbols) <= MaxCalls
    /\ conn' = committed
    /\ pc' = "loop"
    /\ exit' = "none"
    /\ idx' = 1
    /\ pre' = committed
    /\ replay' = TRUE
    /\ runStart' = committed
    /\ UNCHANGED <<committed, hasTable, symbols, raw, df, ri, pe, calls, tape>>
    /\ UNCHANGED dash

AtSymbol == pc = "loop" /\ idx <= Len(symbols)

\* ticker.history raises: the exception leaves fetch_data and ends the process
HistoryRaises ==
    /\ AtSymbol
    /\ ~replay
    /\ pc' = "idle"
    /\ exit' = "raised"
    /\ conn' = committed
    /\ calls' = calls + 1
    /\ UNCHANGED <<committed, hasTable, symbols, idx, raw, df, ri, pe, pre, tape,
                   replay, runStart>>
    /\ UNCHANGED dash

\* ticker.history returns an empty frame (also how yfinance reports most of
\* its own failures): if df.empty: continue
HistoryEmpty ==
    /\ AtSymbol
    /\ replay => tape[idx].series = << >>
    /\ idx' = idx + 1
    /\ calls' = calls + 1
    /\ tape' = IF replay THEN tape ELSE Append(tape, [series |-> << >>, info |-> NoPE])
    /\ UNCHANGED <<committed, hasTable, conn, pc, exit, symbols, raw, df, ri, pe,
                   pre, replay, runStart>>
    /\ UNCHANGED dash

\* ticker.history returns a series, ticker.info raises
InfoRaises(pool) ==
    /\ AtSymbol
    /\ ~replay
    /\ \E s \in pool : Len(s) > 0
    /\ pc' = "idle"
    /\ exit' = "raised"
    /\ conn' = committed
    /\ calls' = calls + 1
    /\ UNCHANGED <<committed, hasTable, symbols, idx, raw, df, ri, pe, pre, tape,
                   replay, runStart>>
    /\ UNCHANGED dash

\* lines 52-71: the series is fetched, the metrics derived, the P/E read
Fetch(pool, infos) ==
    /\ AtSymbol
    /\ \E s \in pool, info \in infos :
        /\ Len(s) > 0
        /\ replay => tape[idx] = [series |-> s, info |-> info]
        /\ raw' = s
        /\ df' = Derive(s)
        /\ pe' = TrailingPE(info)
        /\ tape' = IF replay THEN tape ELSE Append(tape, [series |-> s, info |-> info])
    /\ ri' = 1
    /\ pc' = "rows"
    /\ calls' = calls + 1
    /\ UNCHANGED <<committed, hasTable, conn, exit, symbols, idx, pre, replay, runStart>>
    /\ UNCHANGED dash

\* lines 73-80: one iteration of the row loop
RowStep ==
    /\ pc = "rows"
    /\ ri <= Len(df)
    /\ conn' = IF SkipRow(df[ri])
               THEN conn
               ELSE InsertOrReplace(conn, QuoteRow(symbols[idx], df[ri], pe))
    /\ committed' = AfterExecute(committed, conn')
    /\ ri' = ri + 1
    /\ UNCHANGED <<hasTable, pc, exit, symbols, idx, raw, df, pe, calls, pre, tape,
                   replay, runStart>>
    /\ UNCHANGED dash

\* line 81: self.conn.commit(), then the next symbol
Commit ==
    /\ pc = "rows"
    /\ ri > Len(df)
    /\ committed' = AfterCommit(committed, conn)
    /\ pre' = conn
    /\ pc' = "loop"
    /\ idx' = idx + 1
    /\ ResetLocals
    /\ UNCHANGED <<hasTable, conn, exit, symbols, calls, tape, replay, runStart>>
    /\ UNCHANGED dash

\* the symbol loop is exhausted: fetch_data returns and the process ends
Return ==
    /\ pc = "loop"
    /\ idx > Len(symbols)
    /\ pc' = "idle"
    /\ exit' = "ok"
    /\ conn' = committed
    /\ UNCHANGED <<committed, hasTable, symbols, idx, raw, df, ri, pe, calls, pre,
                   tape, replay, runStart>>
    /\ UNCHANGED dash

\* the run is aborted (the process is killed): what the connection has not
\* committed is rolled back
Abort ==
    /\ pc \in {"loop", "rows"}
    /\ pc' = "idle"
    /\ exit' = "killed"
    /\ conn' = committed
    /\ ResetLocals
    /\ UNCHANGED <<committed, hasTable, symbols, idx, calls, pre, tape, replay, runStart>>
    /\ UNCHANGED dash

(***************************************************************************)
(* The dashboard: one run of the script app.py.                            *)
(***************************************************************************)
\* lines 82-169: the sidebar's inputs, the cached load_data and the page
View ==
    \E list \in Selections, days \in DayOptions, anyMetric \in BOOLEAN, ioOk \in BOOLEAN :
        \/ /\ list = << >>
           /\ shown' = [body |-> "select_symbols", readError |-> FALSE]
           /\ ret' = EmptyFrame
           /\ lastLoad' = NoLoad
           /\ UNCHANGED cache
        \/ /\ list # << >>
           /\ ~anyMetric
           /\ shown' = [body |-> "select_metrics", readError |-> FALSE]
           /\ ret' = EmptyFrame
           /\ lastLoad' = NoLoad
           /\ UNCHANGED cache
        \/ /\ list # << >>
           /\ anyMetric
           /\ Cached(cache, list, days) = {}
           /\ \E out \in LoadData(committed, hasTable, list, days, ioOk) :
                /\ cache' = cache \cup {[symbols |-> list, days |-> days,
                                         frame |-> out.frame, readError |-> out.readError]}
                /\ ret' = out.frame
                /\ lastLoad' = [how |-> out.how, symbols |-> list, days |-> days]
                /\ shown' = [body |-> IF out.frame # EmptyFrame THEN "charts" ELSE "not_found",
                             readError |-> out.readError]
        \/ /\ list # << >>
           /\ anyMetric
           /\ \E e \in Cached(cache, list, days) :
                /\ ret' = e.frame
                /\ lastLoad' = [how |-> "cached", symbols |-> list, days |-> days]
                /\ shown' = [body |-> IF e.frame # EmptyFrame THEN "charts" ELSE "not_found",
                             readError |-> e.readError]
           /\ UNCHANGED cache
    /\ UNCHANGED <<committed, hasTable, conn, pc, exit, symbols, idx, raw, df, ri, pe,
                   calls, pre, tape, replay, runStart>>

(***************************************************************************)
(* Specifications.                                                         *)
(***************************************************************************)
\* the batch job: several runs over lists of up to three symbols
Next ==
    \/ Call(BatchLists)
    \/ Rerun
    \/ HistoryRaises
    \/ HistoryEmpty
    \/ InfoRaises(BatchPool)
    \/ Fetch(BatchPool, Infos)
    \/ RowStep
    \/ Commit
    \/ Return
    \/ Abort

Spec == Init /\ [][Next]_vars

\* one run over one symbol from an empty store, the provider returning any
\* series of up to MaxLen sessions
CallOnce == exit = "none" /\ Call(DeriveLists)

\* the provider returns any series over RichBars
FetchAny == AtSymbol /\ \E vals \in RichVals : Fetch({SeriesOf(vals)}, {NoPE})

NextDerive ==
    \/ CallOnce
    \/ HistoryEmpty
    \/ FetchAny
    \/ RowStep
    \/ Commit
    \/ Return

SpecDerive == Init /\ [][NextDerive]_vars

\* the dashboard beside a collector that fetches one series for two symbols
DashLists == { <<"A", "B">> }
DashPool == { << Session(1, 4, 5, 3, 2), Session(2, 5, 6, 4, 3), Session(3, 4, 5, 4, 1) >> }

NextDash ==
    \/ Call(DashLists)
    \/ Fetch(DashPool, {NoPE})
    \/ RowStep
    \/ Commit
    \/ Return
    \/ View

SpecDash == Init /\ [][NextDash]_vars

(***************************************************************************)
(* Claims.                                                                 *)
(***************************************************************************)
\* the symbol whose series is being written
Current == symbols[idx]

\* every key of table t holds one row
UniqueKeys(t) == \A r \in BagToSet(t) : CountAt(t, r.symbol, r.date) = 1

\* C1: daily_quotes holds at most one row per (symbol, date), in the
\* connection's view and in the file, and once the row loop has written the
\* session of a series, the only row under its key holds the newly derived
\* values.
C1_UpsertReplaces ==
    /\ UniqueKeys(conn)
    /\ UniqueKeys(committed)
    /\ pc = "rows" =>
        \A j \in 1..(ri - 1) :
            ~IsNaN(df[j].pct_change) =>
                /\ RowsAt(conn, Current, df[j].Date) = {QuoteRow(Current, df[j], pe)}
                /\ CountAt(conn, Current, df[j].Date) = 1

\* a write has met a stored row with the same key and other values
C1_Witness ==
    /\ pc = "rows"
    /\ \E j \in 1..(ri - 1) :
        /\ ~IsNaN(df[j].pct_change)
        /\ RowsAt(pre, Current, df[j].Date) # {}
        /\ RowsAt(pre, Current, df[j].Date) # {QuoteRow(Current, df[j], pe)}

\* C2: when a run that returned is run once more over the same list, the
\* provider giving the same series and the same P/E, the table in the file
\* after the second run equals the table after the first.
C2_Idempotent ==
    (pc = "idle" /\ exit = "ok" /\ replay) => committed = runStart

\* a second run that wrote rows has returned
C2_Witness ==
    /\ pc = "idle"
    /\ exit = "ok"
    /\ replay
    /\ \E i \in 1..Len(tape) : Len(tape[i].series) >= 2
    /\ committed # EmptyTable

\* the positions of the list whose iteration has completed
Processed == 1..(idx - 1)

\* C3: when a provider call fails for a symbol in the middle of the list
\* (the symbols before it succeeded), every other symbol of the list is still
\* processed: no error ends the run before the symbols after it.
C3_PartialFailureIsolation ==
    (pc = "idle" /\ exit = "raised" /\ 1 < idx /\ idx < Len(symbols)) =>
        \A i \in 1..Len(symbols) : i # idx => i \in Processed

\* a run over one symbol has returned after fetching a series of n >= 2 sessions
FetchedSeries == tape[1].series

OneSeriesDone ==
    /\ pc = "idle"
    /\ exit = "ok"
    /\ Len(tape) = 1
    /\ Len(FetchedSeries) >= 2

\* the dates table t holds for the symbol
DatesOf(t, symbol) == {r.date : r \in {x \in BagToSet(t) : x.symbol = symbol}}

\* the sessions at index >= 1 of series s (positions 2..Len(s))
Later(s) == 2..Len(s)

\* both closes of the change at position i are zero: pct_change is 0/0
ZeroOverZero(s, i) == s[i - 1].Close = 0 /\ s[i].Close = 0

\* C4 as claimed: from an empty store, a series of N >= 2 sessions leaves
\* exactly N-1 rows, one for each session at index 1..N-1.
C4_Original ==
    OneSeriesDone =>
        /\ BagCardinality(committed) = Len(FetchedSeries) - 1
        /\ DatesOf(committed, symbols[1]) =
              {DateText(FetchedSeries[i].Date) : i \in Later(FetchedSeries)}

\* C4: from an empty store, a series of N >= 2 sessions leaves one row for
\* each session at index 1..N-1 whose close and prior close are not both
\* zero, and no other row; that is N-1 rows when no two consecutive closes
\* are zero.
C4_RowsPerSeries ==
    OneSeriesDone =>
        LET kept == {i \in Later(FetchedSeries) : ~ZeroOverZero(FetchedSeries, i)}
        IN  /\ BagCardinality(committed) = Cardinality(kept)
            /\ DatesOf(committed, symbols[1]) =
                  {DateText(FetchedSeries[i].Date) : i \in kept}
            /\ (\A i \in Later(FetchedSeries) : ~ZeroOverZero(FetchedSeries, i))
                  => BagCardinality(committed) = Len(FetchedSeries) - 1

\* a series of MaxLen sessions has left MaxLen-1 rows
C4_Witness ==
    /\ OneSeriesDone
    /\ Len(FetchedSeries) = MaxLen
    /\ BagCardinality(committed) = MaxLen - 1

Stored(x) == x.k \in {"real", "null"}

\* C7: no stored row has a pct_change, amplitude or vol_ratio that is not
\* finite: each is a finite number or undefined (NULL).
C7_NoNonFiniteStored ==
    \A r \in BagToSet(committed) :
        Stored(r.pct_change) /\ Stored(r.amplitude) /\ Stored(r.vol_ratio)

\* volume[i] / mean(volume[i-4..i]), NULL where the mean is zero
RatioAt(s, i) ==
    LET total == SumVolume(s, i - Window + 1, i)
    IN  IF total = 0 THEN Null ELSE Frac(Window * s[i].Volume, total)

\* the vol_ratio policy for the rows table t holds of series s
VolRatioPolicy(t, symbol, s) ==
    \A i \in Later(s) :
        \A r \in RowsAt(t, symbol, DateText(s[i].Date)) :
            r.vol_ratio = IF i >= Window THEN RatioAt(s, i) ELSE Null

\* the positions of the indices 1, 2 and 3 of series s
Early(s) == {i \in Later(s) : i < Window}

\* C8 as claimed: the row at index i >= 4 has vol_ratio volume[i] /
\* mean(volume[i-4..i]), the rows at the indices 1, 2 and 3 are stored, with
\* a NULL vol_ratio.
C8_Original ==
    OneSeriesDone =>
        /\ VolRatioPolicy(committed, symbols[1], FetchedSeries)
        /\ \A i \in Early(FetchedSeries) :
              RowsAt(committed, symbols[1], DateText(FetchedSeries[i].Date)) # {}

\* C8: the row at index i >= 4 has vol_ratio volume[i] / mean(volume[i-4..i])
\* (NULL when that mean is zero), a row at index i < 4 has a NULL vol_ratio,
\* and the rows at the indices 1, 2 and 3 are stored unless their close and
\* prior close are both zero.
C8_VolRatioPolicy ==
    OneSeriesDone =>
        /\ VolRatioPolicy(committed, symbols[1], FetchedSeries)
        /\ \A i \in Early(FetchedSeries) :
              ~ZeroOverZero(FetchedSeries, i) =>
                  RowsAt(committed, symbols[1], DateText(FetchedSeries[i].Date)) # {}

\* a series of five sessions or more has left a row with a vol_ratio and
\* rows without one
C8_Witness ==
    /\ OneSeriesDone
    /\ Len(FetchedSeries) >= Window
    /\ \E r \in RowsAt(committed, symbols[1], DateText(FetchedSeries[Window].Date)) :
          r.vol_ratio.k = "real" /\ r.vol_ratio.n > 0
    /\ \A i \in Early(FetchedSeries) :
          \E r \in RowsAt(committed, symbols[1], DateText(FetchedSeries[i].Date)) :
              r.vol_ratio = Null

\* C9: between two symbols nothing is pending (the file holds what the
\* connection sees); inside a symbol's row loop the file still holds the
\* table of the last point between two symbols; and after an abort the file
\* holds exactly that table: the rows of every completed symbol, none of the
\* symbol that was being written.
C9_PerSymbolCommit ==
    /\ pc = "loop" => (conn = committed /\ committed = pre)
    /\ pc = "rows" => committed = pre
    /\ (pc = "idle" /\ exit = "killed") => committed = pre

\* a symbol's writes are pending while an earlier symbol's rows are in the file
C9_Witness ==
    /\ pc = "rows"
    /\ idx > 1
    /\ committed # EmptyTable
    /\ conn # committed

\* the keys the row loop may write: the sessions at index >= 1
LaterDates == {df[j].Date : j \in 2..Len(df)}

\* C10: inside and at the end of a symbol's row loop, the rows under the key
\* of the first fetched session are those that were there before the fetch,
\* every row whose key is not a session at index >= 1 of the series is
\* unchanged, every other row of the table belongs to such a session, and no
\* key has disappeared.
C10_FrameOfRefetch ==
    pc = "rows" =>
        /\ RowsAt(conn, Current, df[1].Date) = RowsAt(pre, Current, df[1].Date)
        /\ \A r \in BagToSet(pre) :
              (r.symbol # Current \/ r.date \notin LaterDates) =>
                  (r \in BagToSet(conn) /\ conn[r] = pre[r])
        /\ \A r \in BagToSet(conn) :
              r \notin BagToSet(pre) => (r.symbol = Current /\ r.date \in LaterDates)
        /\ \A r \in BagToSet(pre) : RowsAt(conn, r.symbol, r.date) # {}

\* an overlapping fetch has been written whose first session was stored before
C10_Witness ==
    /\ pc = "rows"
    /\ ri > Len(df)
    /\ RowsAt(pre, Current, df[1].Date) # {}
    /\ conn # pre

\* the order of the symbols as text
Rank(symbol) == CASE symbol = "A" -> 1 [] symbol = "B" -> 2 [] symbol = "C" -> 3

\* frame f is ascending by date, rows of equal date ascending by symbol
ByDateThenSymbol(f) ==
    \A i, j \in DOMAIN f :
        i < j => \/ f[i].date < f[j].date
                 \/ f[i].date = f[j].date /\ Rank(f[i].symbol) < Rank(f[j].symbol)

\* frame f holds exactly the rows of the set, each once
HoldsExactly(f, rows) ==
    /\ Len(f) = Cardinality(rows)
    /\ {f[i] : i \in DOMAIN f} = rows

\* a step of the dashboard in which load_data ran its query without a failure
Loaded == dash' # dash /\ lastLoad'.how = "ok"

\* C5: a call of load_data returns exactly the stored rows of the given
\* symbols within the window, ascending by date and, within a date, by symbol.
C5_QueryExactAndOrdered ==
    [][Loaded =>
        /\ HoldsExactly(ret', Selected(committed, lastLoad'.symbols, lastLoad'.days))
        /\ ByDateThenSymbol(ret')]_vars

\* C6: a read of the store that fails gives the caller of load_data something
\* else than a query that matches no row does: not the empty frame, and not
\* the page of the empty result.
C6_ErrorDistinctFromEmpty ==
    lastLoad.how = "failed" => (ret # EmptyFrame /\ shown.body # "not_found")

=============================================================================
